---------------------------- MODULE Spec2Model ----------------------------
(***************************************************************************)
(* The "Generate Video" handler of streamlit_app.py: script generation     *)
(* through the Together chat-completions endpoint, text-to-speech with     *)
(* gTTS, and video assembly with moviepy.  Streamlit runs the script once  *)
(* per button press, each press in its own script thread, so several       *)
(* invocations may be in flight at once; they share only the temporary     *)
(* directory of the host.  An invocation is cut into steps at its blocking *)
(* external calls (requests.post, tts.save, write_videofile).              *)
(***************************************************************************)
EXTENDS Naturals, Sequences, FiniteSets, TLC

\* ------------------------------------------------------------------ bounds
NumInvocations == 2      \* button presses that may run at the same time
NumTmpNames == 2         \* random names tempfile may draw, per suffix
MaxTextLen == 1          \* longest text a response may carry
MaxChoices == 2          \* longest "choices" list of a response
MaxDuration == 1         \* longest audio track, in seconds

\* --------------------------------------------------------- program values
HTTP_OK == 200
ErrorStatuses == {500}

Invocations == 1..NumInvocations
TmpNames == 1..NumTmpNames
Durations == 0..MaxDuration

\* An optional value: <<>> while the Python name is unbound, <<v>> once bound.
Unbound == <<>>
Bound(v) == <<v>>
IsBound(o) == o # <<>>
Val(o) == o[1]

\* Texts are sequences of characters; " " stands for any whitespace.
Chars == {" ", "a"}
Texts == UNION {[1..n -> Chars] : n \in 0..MaxTextLen}

IsSpace(c) == c = " "

RECURSIVE lstrip(_)
lstrip(t) == IF t # <<>> /\ IsSpace(Head(t)) THEN lstrip(Tail(t)) ELSE t

RECURSIVE rstrip(_)
rstrip(t) ==
    IF t # <<>> /\ IsSpace(t[Len(t)]) THEN rstrip(SubSeq(t, 1, Len(t) - 1)) ELSE t

\* str.strip()
strip(t) == rstrip(lstrip(t))

\* ------------------------------------------------------ service responses
\* A parsed JSON object is a function from its keys.  A chat-completions
\* body has "choices", a list of {"message": {"role", "content"}}; the other
\* envelope providers use has a direct "generated_text" field.
Message(t) == [message |-> [role |-> "assistant", content |-> t]]
ChoiceLists == UNION {[1..n -> {Message(t) : t \in Texts}] : n \in 0..MaxChoices}
ChatBodies == {[choices |-> cs] : cs \in ChoiceLists}
DirectBodies == {[generated_text |-> t] : t \in Texts}

\* resp: the status, and the body, which either parses to a JSON object or
\* does not (resp.json() raises).
Response(st, ok, js) == [status_code |-> st, parseable |-> ok, json |-> Bound(js)]
Unparseable(st) == [status_code |-> st, parseable |-> FALSE, json |-> Unbound]

Responses ==
    {Response(HTTP_OK, TRUE, b) : b \in ChatBodies \cup DirectBodies}
    \cup {Unparseable(st) : st \in {HTTP_OK} \cup ErrorStatuses}
    \cup {Response(st, TRUE, b) : st \in ErrorStatuses,
                                   b \in ChatBodies \cup DirectBodies}

\* One response of each kind the handler tells apart.
SomeResponses ==
    {Unparseable(st) : st \in {HTTP_OK} \cup ErrorStatuses} \cup
    {Response(HTTP_OK, TRUE, [generated_text |-> <<"a">>]),
     Response(HTTP_OK, TRUE, [choices |-> <<>>]),
     Response(HTTP_OK, TRUE, [choices |-> <<Message(<<" ">>)>>]),
     Response(HTTP_OK, TRUE, [choices |-> <<Message(<<"a">>)>>])}


\* ---------------------------------------------------------------- state
VARIABLES
    pc,          \* where each invocation stands
    resp,        \* the response of requests.post
    script,      \* the stripped generated text
    gTTSCalls,   \* the texts gTTS was constructed with
    audio_tmp,   \* the path of the NamedTemporaryFile
    tmp_dir,     \* the directory mkdtemp made
    img_path,    \* the saved upload
    duration,    \* audio_clip.duration
    img_clip,    \* the image clip
    txt_clip,    \* the caption clip
    video,       \* the composite clip
    video_path,  \* the file write_videofile writes
    calls,       \* the stages the invocation has started, in order
    failed,      \* the stage and the error the invocation stopped with
    ui,          \* the elements the page of the invocation shows
    fs           \* the temporary directory of the host: path -> file

locals == <<resp, script, gTTSCalls, audio_tmp, tmp_dir, img_path, duration,
            img_clip, txt_clip, video, video_path>>
vars == <<pc, locals, calls, failed, ui, fs>>

\* (the speech and video blocks exchanged)
StageOrder_reordered ==
    <<"GeneratingScript", "AssemblingVideo", "SynthesizingSpeech">>

\* The three "with st.spinner" blocks, in the order the script holds them.
StageOrder == <<"GeneratingScript", "SynthesizingSpeech", "AssemblingVideo">>

StageIndex(stage) == CHOOSE i \in 1..Len(StageOrder) : StageOrder[i] = stage

\* Where control goes when a stage's block ends without raising.
After(stage) ==
    IF StageIndex(stage) < Len(StageOrder)
    THEN StageOrder[StageIndex(stage) + 1]
    ELSE "Complete"

\* ------------------------------------------------------------ temp files
\* A path under the temporary directory: tmp<rand><suffix>[/<base>].
Path(n, suffix) == [rand |-> n, suffix |-> suffix, base |-> ""]

\* os.path.join(dir, base)
Join(dir, base) == [dir EXCEPT !.base = base]

File(kind, writer, d, complete) ==
    [kind |-> kind, writer |-> writer, duration |-> d, complete |-> complete]

\* (a name taken without the exclusive create)
UsableNames_any(fsys, suffix) == TmpNames

\* The names tempfile may return: it creates the entry exclusively
\* (O_EXCL, mkdir), trying another random name while the name exists.
UsableNames(fsys, suffix) == {n \in TmpNames : Path(n, suffix) \notin DOMAIN fsys}

\* open(path, "wb") and write: the file is created or overwritten.
WriteFile(fsys, path, file) == (path :> file) @@ fsys

Init ==
    /\ pc = [s \in Invocations |-> "Idle"]
    /\ resp = [s \in Invocations |-> Unbound]
    /\ script = [s \in Invocations |-> Unbound]
    /\ gTTSCalls = [s \in Invocations |-> <<>>]
    /\ audio_tmp = [s \in Invocations |-> Unbound]
    /\ tmp_dir = [s \in Invocations |-> Unbound]
    /\ img_path = [s \in Invocations |-> Unbound]
    /\ duration = [s \in Invocations |-> Unbound]
    /\ img_clip = [s \in Invocations |-> Unbound]
    /\ txt_clip = [s \in Invocations |-> Unbound]
    /\ video = [s \in Invocations |-> Unbound]
    /\ video_path = [s \in Invocations |-> Unbound]
    /\ calls = [s \in Invocations |-> <<>>]
    /\ failed = [s \in Invocations |-> Unbound]
    /\ ui = [s \in Invocations |-> {}]
    /\ fs = <<>>

\* --------------------------------------------------------------- helpers
Failure(stage, error, status, body) ==
    [stage |-> stage, error |-> error, status |-> status, body |-> body]

\* st.error + st.stop, or an exception that leaves the script: the page shows
\* `shown`, and the run of the script ends there.
Stop(s, stage, error, status, body, shown) ==
    /\ pc' = [pc EXCEPT ![s] = "Failed"]
    /\ failed' = [failed EXCEPT ![s] = Bound(Failure(stage, error, status, body))]
    /\ ui' = [ui EXCEPT ![s] = @ \cup {shown}]

\* (the exception caught and the script carrying on with the next block)
Raise_swallowed(s, stage, error) ==
    /\ pc' = [pc EXCEPT ![s] = After(stage)]
    /\ failed' = [failed EXCEPT ![s] = Bound(Failure(stage, error, Unbound, Unbound))]
    /\ ui' = [ui EXCEPT ![s] = @ \cup {"exception"}]

\* An exception nothing in the handler catches: Streamlit shows it and the
\* run of the script ends.
Raise(s, stage, error) == Stop(s, stage, error, Unbound, Unbound, "exception")

\* (the status check left out)
BadStatus_never(r) == FALSE

\* resp.status_code != 200
BadStatus(r) == r.status_code # HTTP_OK

\* resp.text: the body as received
BodyText(r) == [parseable |-> r.parseable, json |-> r.json]

Returned(t) == [raised |-> "", value |-> t]
Raised(e) == [raised |-> e, value |-> <<>>]

\* data = resp.json(); data["choices"][0]["message"]["content"].strip()
ExtractScript(r) ==
    IF ~r.parseable THEN Raised("JSONDecodeError")
    ELSE LET data == Val(r.json) IN
         IF "choices" \notin DOMAIN data THEN Raised("KeyError")
         ELSE IF Len(data.choices) = 0 THEN Raised("IndexError")
         ELSE Returned(strip(data.choices[1].message.content))

\* How gTTS(text=..., lang=...) followed by tts.save(path) may end: the
\* constructor refuses an empty text; the save may fail on the network.
gTTSOutcomes(text) ==
    IF text = <<>> THEN {"construct_error"}
    ELSE {"ok", "construct_error", "save_error"}

\* (a fixed clip length instead of the measured one)
HoldTime_fixed(measured) == 8

\* .set_duration(duration): the hold time given to a clip
HoldTime(measured) == measured

\* CompositeVideoClip([...]): the composite lasts as long as its longest clip.
CompositeDuration(a, b) == IF a >= b THEN a ELSE b

\* (the display reached whatever write_videofile did)
Displays_always(outcome) == TRUE

\* st.video and st.download_button are reached only when write_videofile
\* has returned.
Displays(outcome) == outcome = "ok"

\* -------------------------------------------------------------- actions
\* if st.button("Generate Video"): the upload check
GenerateVideo(s, uploaded) ==
    /\ pc[s] = "Idle"
    /\ IF ~uploaded
       THEN Stop(s, "Idle", "Please upload a product image.", Unbound, Unbound,
                 "error")
       ELSE /\ pc' = [pc EXCEPT ![s] = StageOrder[1]]
            /\ UNCHANGED <<failed, ui>>
    /\ UNCHANGED <<locals, calls, fs>>

\* 1) SCRIPT GENERATION
ScriptGeneration(s, r) ==
    /\ pc[s] = "GeneratingScript"
    /\ calls' = [calls EXCEPT ![s] = Append(@, "GeneratingScript")]
    /\ resp' = [resp EXCEPT ![s] = Bound(r)]
    /\ IF BadStatus(r)
       THEN /\ Stop(s, "GeneratingScript", "DeepSeek API error",
                    Bound(r.status_code), Bound(BodyText(r)), "error")
            /\ UNCHANGED script
       ELSE LET x == ExtractScript(r) IN
            IF x.raised # ""
            THEN /\ Raise(s, "GeneratingScript", x.raised)
                 /\ UNCHANGED script
            ELSE /\ script' = [script EXCEPT ![s] = Bound(x.value)]
                 /\ ui' = [ui EXCEPT ![s] = @ \cup {"Script generated.", "script"}]
                 /\ pc' = [pc EXCEPT ![s] = After("GeneratingScript")]
                 /\ UNCHANGED failed
    /\ UNCHANGED <<gTTSCalls, audio_tmp, tmp_dir, img_path, duration, img_clip,
                   txt_clip, video, video_path, fs>>

\* 2) TEXT-TO-SPEECH
SpeechSynthesis(s, outcome, n, d) ==
    /\ pc[s] = "SynthesizingSpeech"
    /\ calls' = [calls EXCEPT ![s] = Append(@, "SynthesizingSpeech")]
    /\ UNCHANGED <<resp, script, tmp_dir, img_path, duration, img_clip, txt_clip,
                   video, video_path>>
    /\ IF ~IsBound(script[s])
       THEN /\ outcome = "construct_error"
            /\ Raise(s, "SynthesizingSpeech", "NameError")
            /\ UNCHANGED <<gTTSCalls, audio_tmp, fs>>
       ELSE /\ outcome \in gTTSOutcomes(Val(script[s]))
            /\ gTTSCalls' = [gTTSCalls EXCEPT ![s] = Append(@, Val(script[s]))]
            /\ IF outcome = "construct_error"
               THEN /\ Raise(s, "SynthesizingSpeech", "gTTS")
                    /\ UNCHANGED <<audio_tmp, fs>>
               ELSE /\ n \in UsableNames(fs, ".mp3")
                    /\ audio_tmp' = [audio_tmp EXCEPT ![s] = Bound(Path(n, ".mp3"))]
                    /\ IF outcome = "save_error"
                       THEN /\ fs' = WriteFile(fs, Path(n, ".mp3"),
                                               File("audio", s, 0, FALSE))
                            /\ Raise(s, "SynthesizingSpeech", "gTTSError")
                       ELSE /\ fs' = WriteFile(fs, Path(n, ".mp3"),
                                               File("audio", s, d, TRUE))
                            /\ ui' = [ui EXCEPT ![s] = @ \cup {"Voice generated."}]
                            /\ pc' = [pc EXCEPT ![s] = After("SynthesizingSpeech")]
                            /\ UNCHANGED failed

\* How building the clips may end: AudioFileClip, ImageClip (an image that
\* does not decode) or TextClip (a missing font) may raise.
ComposeOutcomes == {"ok", "audio_error", "image_error", "caption_error"}

\* 3) VIDEO ASSEMBLY, up to the composite clip
ComposeVideo(s, outcome, n) ==
    /\ pc[s] = "AssemblingVideo"
    /\ calls' = [calls EXCEPT ![s] = Append(@, "AssemblingVideo")]
    /\ n \in UsableNames(fs, "")
    /\ outcome \in ComposeOutcomes
    /\ LET dir == Path(n, "")
           img == Join(dir, "product.png")
           readable == IsBound(audio_tmp[s]) /\ outcome # "audio_error"
           measured == fs[Val(audio_tmp[s])].duration
           hold == HoldTime(measured)
       IN
       /\ tmp_dir' = [tmp_dir EXCEPT ![s] = Bound(dir)]
       /\ img_path' = [img_path EXCEPT ![s] = Bound(img)]
       /\ fs' = WriteFile(WriteFile(fs, dir, File("dir", s, 0, TRUE)),
                          img, File("image", s, 0, TRUE))
       /\ duration' = [duration EXCEPT ![s] =
                           IF readable THEN Bound(measured) ELSE @]
       /\ img_clip' = [img_clip EXCEPT ![s] =
                           IF readable /\ outcome # "image_error"
                           THEN Bound([path |-> img, duration |-> hold]) ELSE @]
       /\ txt_clip' = [txt_clip EXCEPT ![s] =
                           IF outcome = "ok" /\ readable
                           THEN Bound([text |-> Val(script[s]), duration |-> hold])
                           ELSE @]
       /\ IF outcome = "ok" /\ readable
          THEN /\ video' = [video EXCEPT ![s] =
                               Bound([duration |-> CompositeDuration(hold, hold),
                                      audio |-> Val(audio_tmp[s])])]
               /\ pc' = [pc EXCEPT ![s] = "Encoding"]
               /\ UNCHANGED <<failed, ui>>
          ELSE /\ Raise(s, "AssemblingVideo",
                        IF ~IsBound(audio_tmp[s]) THEN "NameError" ELSE outcome)
               /\ UNCHANGED video
    /\ UNCHANGED <<resp, script, gTTSCalls, audio_tmp, video_path>>

\* How write_videofile may end: the encoder may fail part-way.
EncodeOutcomes == {"ok", "encode_error"}

\* 3) VIDEO ASSEMBLY, write out; then Display & download
WriteVideoFile(s, outcome) ==
    /\ pc[s] = "Encoding"
    /\ outcome \in EncodeOutcomes
    /\ LET path == Join(Val(tmp_dir[s]), "product_video.mp4") IN
       /\ video_path' = [video_path EXCEPT ![s] = Bound(path)]
       /\ fs' = WriteFile(fs, path,
                          File("video", s, Val(video[s]).duration, outcome = "ok"))
    /\ IF Displays(outcome)
       THEN /\ ui' = [ui EXCEPT ![s] = @ \cup {"Video generated!", "video",
                                              "download"}]
            /\ pc' = [pc EXCEPT ![s] = After("AssemblingVideo")]
            /\ UNCHANGED failed
       ELSE Raise(s, "AssemblingVideo", outcome)
    /\ UNCHANGED <<resp, script, gTTSCalls, audio_tmp, tmp_dir, img_path,
                   duration, img_clip, txt_clip, video, calls>>

\* One step of invocation s, the text service answering from R and the
\* speech service writing a track of a length from D.
Step(s, R, D) ==
    \/ \E uploaded \in BOOLEAN : GenerateVideo(s, uploaded)
    \/ \E r \in R : ScriptGeneration(s, r)
    \/ \E outcome \in {"ok", "construct_error", "save_error"}, n \in TmpNames,
          d \in D : SpeechSynthesis(s, outcome, n, d)
    \/ \E outcome \in ComposeOutcomes, n \in TmpNames : ComposeVideo(s, outcome, n)
    \/ \E outcome \in EncodeOutcomes : WriteVideoFile(s, outcome)

\* Concurrent invocations.
Next == \E s \in Invocations : Step(s, SomeResponses, {MaxDuration})

Spec == Init /\ [][Next]_vars

\* One invocation, over every response of the bounded service.
NextPipeline == Step(1, Responses, Durations)

SpecPipeline == Init /\ [][NextPipeline]_vars

\* --------------------------------------------------------------- claims
Pipeline == <<"GeneratingScript", "SynthesizingSpeech", "AssemblingVideo">>

Started(s, stage) == \E i \in DOMAIN calls[s] : calls[s][i] = stage

Ended(s) == pc[s] \in {"Complete", "Failed"}

FailedAt(s, stage) == IsBound(failed[s]) /\ Val(failed[s]).stage = stage

\* The files invocation s has written and that still exist.
FilesOf(s) == {p \in DOMAIN fs : fs[p].writer = s}

\* C1: the stages of an invocation run in the order script generation,
\* speech synthesis, video assembly, each at most once: speech synthesis
\* starts only once a script has been returned, video assembly only once the
\* invocation's audio file has been written, and an invocation is Complete
\* (the video shown) only after all three have run exactly once.
C1_StagesInOrder ==
    \A s \in Invocations :
        /\ Len(calls[s]) <= Len(Pipeline)
        /\ calls[s] = SubSeq(Pipeline, 1, Len(calls[s]))
        /\ Started(s, "SynthesizingSpeech") => IsBound(script[s])
        /\ Started(s, "AssemblingVideo") =>
               /\ IsBound(audio_tmp[s])
               /\ Val(audio_tmp[s]) \in DOMAIN fs
               /\ fs[Val(audio_tmp[s])] = File("audio", s, fs[Val(audio_tmp[s])].duration, TRUE)
        /\ (pc[s] = "Complete" \/ "video" \in ui[s]) => calls[s] = Pipeline

C1_Witness ==
    \E s \in Invocations : pc[s] = "Complete" /\ "video" \in ui[s]

\* C2: a response with a status other than 200 ends the invocation Failed at
\* script generation, the error carrying the status code and the body, and
\* neither gTTS nor the video composer is called.
C2_BadStatusStops ==
    \A s \in Invocations :
        (IsBound(resp[s]) /\ Val(resp[s]).status_code # 200) =>
            /\ pc[s] = "Failed"
            /\ FailedAt(s, "GeneratingScript")
            /\ Val(failed[s]).status = <<Val(resp[s]).status_code>>
            /\ Val(failed[s]).body =
                   <<[parseable |-> Val(resp[s]).parseable, json |-> Val(resp[s]).json]>>
            /\ "error" \in ui[s]
            /\ gTTSCalls[s] = <<>>
            /\ calls[s] = <<"GeneratingScript">>
            /\ FilesOf(s) = {}

C2_Witness ==
    \E s \in Invocations :
        /\ IsBound(resp[s]) /\ Val(resp[s]).status_code = 500
        /\ Val(resp[s]).parseable
        /\ "choices" \in DOMAIN Val(Val(resp[s]).json)
        /\ pc[s] = "Failed"

\* C3: when speech synthesis fails (the gTTS constructor or the save raises)
\* the video composer is never invoked: no image clip, caption clip or video
\* file is built or written in that invocation.
C3_SpeechFailureStops ==
    \A s \in Invocations :
        FailedAt(s, "SynthesizingSpeech") =>
            /\ ~Started(s, "AssemblingVideo")
            /\ ~IsBound(tmp_dir[s]) /\ ~IsBound(img_path[s])
            /\ ~IsBound(duration[s])
            /\ ~IsBound(img_clip[s]) /\ ~IsBound(txt_clip[s]) /\ ~IsBound(video[s])
            /\ ~IsBound(video_path[s])
            /\ \A p \in FilesOf(s) : fs[p].kind = "audio"

C3_Witness ==
    \E s, t \in Invocations :
        /\ FailedAt(s, "SynthesizingSpeech") /\ Val(failed[s]).error = "gTTSError"
        /\ FilesOf(s) # {}
        /\ FailedAt(t, "SynthesizingSpeech") /\ Val(failed[t]).error = "gTTS"

\* C4: the script generator never forwards an empty text: no script variable
\* holds the empty string, and gTTS is never constructed with an empty text.
C4_NoEmptyScriptForwarded ==
    \A s \in Invocations :
        /\ IsBound(script[s]) => Val(script[s]) # <<>>
        /\ \A i \in DOMAIN gTTSCalls[s] : gTTSCalls[s][i] # <<>>

\* C5: in an invocation that reaches video assembly, the hold time of the
\* image clip, that of the caption clip and the duration of the video all
\* equal the duration read from the audio file this invocation wrote.
C5_DurationFromAudio ==
    \A s \in Invocations :
        LET track == fs[Val(audio_tmp[s])] IN
        /\ IsBound(duration[s]) =>
               track.writer = s /\ track.kind = "audio" /\ Val(duration[s]) = track.duration
        /\ IsBound(img_clip[s]) => Val(img_clip[s]).duration = track.duration
        /\ IsBound(txt_clip[s]) => Val(txt_clip[s]).duration = track.duration
        /\ IsBound(video[s]) =>
               /\ IsBound(img_clip[s]) /\ IsBound(txt_clip[s])
               /\ Val(video[s]).duration = track.duration
        /\ IsBound(video_path[s]) => fs[Val(video_path[s])].duration = track.duration

C5_Witness ==
    \E s \in Invocations :
        /\ pc[s] = "Complete"
        /\ fs[Val(video_path[s])].duration = MaxDuration
        /\ Val(txt_clip[s]).duration = MaxDuration

\* C6: an audio track measured at a duration <= 0 is rejected before the
\* composer: the invocation fails and no clip or video file is built.
C6_ZeroDurationRejected ==
    \A s \in Invocations :
        (IsBound(duration[s]) /\ Val(duration[s]) <= 0) =>
            /\ pc[s] = "Failed"
            /\ ~IsBound(img_clip[s]) /\ ~IsBound(txt_clip[s]) /\ ~IsBound(video[s])
            /\ ~IsBound(video_path[s])

\* C7: the video player and the download button are shown only in an
\* invocation whose three stages succeeded and whose video file was encoded
\* to the end; an invocation that failed shows neither, and its last stage
\* call is the one that failed.
C7_NoPartialOutput ==
    \A s \in Invocations :
        /\ (ui[s] \cap {"video", "download"} # {}) =>
               /\ pc[s] = "Complete" /\ ~IsBound(failed[s])
               /\ calls[s] = Pipeline
               /\ {"Script generated.", "Voice generated.", "Video generated!"}
                      \subseteq ui[s]
               /\ IsBound(video_path[s])
               /\ fs[Val(video_path[s])].kind = "video"
               /\ fs[Val(video_path[s])].complete
        /\ (IsBound(failed[s]) \/ pc[s] = "Failed") =>
               /\ pc[s] = "Failed" /\ IsBound(failed[s])
               /\ ui[s] \cap {"video", "download", "Video generated!"} = {}
               /\ \/ calls[s] = <<>> /\ Val(failed[s]).stage = "Idle"
                  \/ calls[s] # <<>> /\ calls[s][Len(calls[s])] = Val(failed[s]).stage

C7_Witness ==
    \E s \in Invocations :
        /\ FailedAt(s, "AssemblingVideo") /\ Val(failed[s]).error = "encode_error"
        /\ IsBound(video_path[s]) /\ ~fs[Val(video_path[s])].complete

\* The files an invocation names: its audio file, its saved image, its video.
PathsOf(s) ==
    {Val(o) : o \in {x \in {audio_tmp[s], img_path[s], video_path[s], tmp_dir[s]} :
                        IsBound(x)}}

C9_ShapesInPriorityOrder ==
    \A s \in Invocations :
        (IsBound(resp[s]) /\ Val(resp[s]).status_code = 200) =>
            LET r == Val(resp[s])
                data == Val(r.json)
                direct == IF r.parseable /\ "generated_text" \in DOMAIN data
                          THEN strip(data.generated_text) ELSE <<>>
                chat == IF r.parseable /\ "choices" \in DOMAIN data
                           /\ Len(data.choices) > 0
                        THEN strip(data.choices[Len(data.choices)].message.content)
                        ELSE <<>>
                text == IF direct # <<>> THEN direct ELSE chat
            IN  IF text # <<>>
                THEN script[s] = <<text>> /\ ~FailedAt(s, "GeneratingScript")
                ELSE ~IsBound(script[s]) /\ FailedAt(s, "GeneratingScript")

\* C10: an invocation that has ended, Complete or Failed, has released the
\* transient storage it allocated: its audio file and its directory with
\* the image and the video are gone.
C10_StorageReleased ==
    \A s \in Invocations : Ended(s) => FilesOf(s) = {}

=============================================================================
